---- MODULE Spec2Model ----
(***************************************************************************)
(* Model of the force-calculation kernel of the Water Flow Forces          *)
(* Calculator (src/src/calculations.py): the drag-coefficient table Cd,    *)
(* the debris-depth clamp calculate_actual_debris_depth and the            *)
(* leg-typed calculate_forces, with the two callers of the kernel: the     *)
(* preview of src/src/app.py and the batch layer process_dataframe of      *)
(* src/src/data_processing.py.                                             *)
(*                                                                         *)
(* Numbers.  The code computes with decimal.Decimal.  A number is modelled *)
(* as a record [t, m, e] with value m * 10^e, kept normalised (m carries   *)
(* no trailing zero, zero is m = 0, e = 0), so that record equality is     *)
(* numeric equality, which is what Decimal's == is.  The field t is the    *)
(* Python representation: "dec" (Decimal), "float" (binary float), "int"   *)
(* (an integer literal such as the 40 in V2y - 40), or the name of the     *)
(* exception the expression raised.  Decimal arithmetic with a float       *)
(* operand raises TypeError; comparisons between Decimal, float and int    *)
(* are allowed.  Decimal rounds every result half-even to the 28           *)
(* significant digits of its context.  In the model addition is exact, a   *)
(* product is exact while its mantissa fits the integers of the model      *)
(* (below 2^31) and rounded half-even to the digits that fit otherwise,    *)
(* and division and square root are rounded half-even to Prec digits.      *)
(***************************************************************************)
EXTENDS Integers, Sequences, FiniteSets, TLC

VARIABLES call, ret

vars == <<call, ret>>

----------------------------------------------------------------------------
(* Bounds of the model *)

\* digits kept by the inexact operations (division, square root)
Prec == 3

\* Cd is called with y = k/4 m for k in 0..MaxQuarterDepth
MaxQuarterDepth == 280

\* Cd is called with V in 0..MaxCdVelocity m/s
MaxCdVelocity == 3

\* process_dataframe is called with dataframes of 0..MaxRows rows
MaxRows == 2

\* the clamp is called with depths k/2 m for k in 0..MaxHalfDepth
MaxHalfDepth == 8

----------------------------------------------------------------------------
(* Decimal arithmetic *)

ErrKinds == {"TypeError", "DivisionByZero", "InvalidOperation"}

IsErr(x) == x.t \in ErrKinds

Raise(k) == [t |-> k, m |-> 0, e |-> 0]

RECURSIVE Pow10(_)
Pow10(n) == IF n <= 0 THEN 1 ELSE 10 * Pow10(n - 1)

RECURSIVE Norm(_, _)
Norm(m, e) ==
    IF m = 0 THEN [m |-> 0, e |-> 0]
    ELSE IF m % 10 = 0 THEN Norm(m \div 10, e + 1)
    ELSE [m |-> m, e |-> e]

Mk(t, m, e) == LET n == Norm(m, e) IN [t |-> t, m |-> n.m, e |-> n.e]

\* Decimal("...") literal, float value, int literal
Decimal(m, e) == Mk("dec", m, e)
Float(m, e) == Mk("float", m, e)
PyInt(n) == Mk("int", n, 0)

\* a value handed over as a binary float instead of a Decimal
AsFloat(x) == [t |-> "float", m |-> x.m, e |-> x.e]

\* representation of the result of a binary arithmetic operation, or the
\* exception it raises: an int operand adapts, Decimal with float is refused
Coerce(x, y) ==
    IF IsErr(x) THEN x.t
    ELSE IF IsErr(y) THEN y.t
    ELSE IF x.t = "int" THEN y.t
    ELSE IF y.t = "int" THEN x.t
    ELSE IF x.t = y.t THEN x.t
    ELSE "TypeError"

MinInt(a, b) == IF a <= b THEN a ELSE b

Abs(n) == IF n < 0 THEN -n ELSE n

Sgn(n) == IF n < 0 THEN -1 ELSE IF n = 0 THEN 0 ELSE 1

\* mantissa of x at exponent e (e <= x.e)
At(x, e) == x.m * Pow10(x.e - e)

\* a * b for naturals a, b as [m, shift] with a * b = m * 10^shift: exact
\* (shift = 0) while the product fits the integers of the model, otherwise
\* rounded half-even to the most digits that fit
RECURSIVE SplitMul(_, _, _)
SplitMul(a, b, k) ==
    LET B == Pow10(k)
        a1 == a \div B
        a0 == a % B
        hi == a1 * b + (a0 * b) \div B
        lo == (a0 * b) % B
    IN  IF b = 0 \/ a1 <= (2147483647 - b) \div b \/ (k = 0 /\ a <= 2147483647 \div b)
        THEN [m |-> IF 2 * lo > B \/ (2 * lo = B /\ hi % 2 = 1) THEN hi + 1 ELSE hi,
              shift |-> k]
        ELSE SplitMul(a, b, k + 1)

\* the mantissa product of two numbers, the larger mantissa split
MulMantissa(m1, m2) ==
    LET a == IF Abs(m1) >= Abs(m2) THEN Abs(m1) ELSE Abs(m2)
        b == IF Abs(m1) >= Abs(m2) THEN Abs(m2) ELSE Abs(m1)
        p == SplitMul(a, b, 0)
    IN  [m |-> Sgn(m1) * Sgn(m2) * p.m, shift |-> p.shift]

DMul(x, y) ==
    LET t == Coerce(x, y)
        p == MulMantissa(x.m, y.m)
    IN  IF t \in ErrKinds THEN Raise(t) ELSE Mk(t, p.m, x.e + y.e + p.shift)

DAdd(x, y) ==
    LET t == Coerce(x, y)
        e == MinInt(x.e, y.e)
    IN  IF t \in ErrKinds THEN Raise(t) ELSE Mk(t, At(x, e) + At(y, e), e)

DNeg(x) == IF IsErr(x) THEN x ELSE Mk(x.t, -x.m, x.e)

DSub(x, y) == DAdd(x, DNeg(y))

\* x ** 2
DPow2(x) == IF IsErr(x) THEN x ELSE Mk(x.t, x.m * x.m, x.e + x.e)

\* n / d for naturals, rounded half-even to an integer
RoundDiv(n, d) ==
    LET q == n \div d
        r == n % d
    IN  IF 2 * r > d \/ (2 * r = d /\ q % 2 = 1) THEN q + 1 ELSE q

\* the digits a quotient of the natural m keeps: Prec, fewer when m has so
\* many digits that Prec more do not fit the integers of the model
RECURSIVE DivShift(_, _)
DivShift(m, k) ==
    IF k = 0 \/ m <= 2147483647 \div Pow10(k) THEN k ELSE DivShift(m, k - 1)

\* x / y: the operand types are checked before the divisor is looked at
DDiv(x, y) ==
    LET t == Coerce(x, y)
    IN  IF t \in ErrKinds THEN Raise(t)
        ELSE IF y.m = 0
             THEN Raise(IF x.m = 0 THEN "InvalidOperation" ELSE "DivisionByZero")
        ELSE LET k == DivShift(Abs(x.m), Prec)
             IN  Mk(t, Sgn(x.m) * Sgn(y.m) * RoundDiv(Abs(x.m) * Pow10(k), Abs(y.m)),
                    x.e - y.e - k)

RECURSIVE ISqrtIter(_, _)
ISqrtIter(n, x) ==
    LET y == (x + n \div x) \div 2
    IN  IF y >= x THEN x ELSE ISqrtIter(n, y)

ISqrt(n) == IF n = 0 THEN 0 ELSE ISqrtIter(n, n)

\* Decimal("2").sqrt(), to Prec digits after the point
Sqrt2 ==
    LET n == 2 * Pow10(2 * Prec)
        r == ISqrt(n)
    IN  Mk("dec", IF n - r * r > r THEN r + 1 ELSE r, -Prec)

\* comparisons (allowed between Decimal, float and int)
\* x.m * 10^d does not fit the integers of the model
TooBig(x, d) == x.m # 0 /\ (d >= 10 \/ Abs(x.m) > 2147483647 \div Pow10(d))

\* -1, 0, 1 as x < y, x = y, x > y; a mantissa that cannot be brought to the
\* smaller exponent is larger in magnitude than any mantissa at that exponent
Cmp(x, y) ==
    LET e == MinInt(x.e, y.e)
    IN  IF TooBig(x, x.e - e) THEN Sgn(x.m)
        ELSE IF TooBig(y, y.e - e) THEN -Sgn(y.m)
        ELSE IF At(x, e) < At(y, e) THEN -1
        ELSE IF At(x, e) = At(y, e) THEN 0 ELSE 1

DLt(x, y) == Cmp(x, y) < 0
DLe(x, y) == Cmp(x, y) <= 0
DEq(x, y) == Cmp(x, y) = 0

\* Python's max(a, b) and min(a, b): the first argument wins a tie
DMax(a, b) == IF DLt(a, b) THEN b ELSE a
DMin(a, b) == IF DLt(b, a) THEN b ELSE a

----------------------------------------------------------------------------
(* calculations.Cd *)

\* Cd with the breakpoints given to the segment that starts there
Cd_Exclusive(V, y) ==
    LET V2y == DMul(DPow2(V), y)
    IN  IF IsErr(V2y) THEN V2y
        ELSE IF DLt(V2y, PyInt(40)) THEN Decimal(34, -1)
        ELSE IF DLt(V2y, PyInt(60))
             THEN DSub(Decimal(34, -1), DMul(Decimal(3, -2), DSub(V2y, PyInt(40))))
        ELSE IF DLt(V2y, PyInt(85))
             THEN DSub(Decimal(28, -1), DMul(Decimal(18, -3), DSub(V2y, PyInt(60))))
        ELSE IF DLt(V2y, PyInt(100))
             THEN DSub(Decimal(235, -2), DMul(Decimal(1, -2), DSub(V2y, PyInt(85))))
        ELSE IF DLt(V2y, PyInt(130))
             THEN DSub(Decimal(22, -1), DMul(Decimal(833, -5), DSub(V2y, PyInt(100))))
        ELSE IF DLt(V2y, PyInt(260))
             THEN DSub(Decimal(195, -2), DMul(Decimal(423, -5), DSub(V2y, PyInt(130))))
        ELSE Decimal(14, -1)

\* Cd with a last segment that falls too fast
Cd_SteepLastSegment(V, y) ==
    LET V2y == DMul(DPow2(V), y)
    IN  IF IsErr(V2y) THEN V2y
        ELSE IF DLe(V2y, PyInt(40)) THEN Decimal(34, -1)
        ELSE IF DLe(V2y, PyInt(60))
             THEN DSub(Decimal(34, -1), DMul(Decimal(3, -2), DSub(V2y, PyInt(40))))
        ELSE IF DLe(V2y, PyInt(85))
             THEN DSub(Decimal(28, -1), DMul(Decimal(18, -3), DSub(V2y, PyInt(60))))
        ELSE IF DLe(V2y, PyInt(100))
             THEN DSub(Decimal(235, -2), DMul(Decimal(1, -2), DSub(V2y, PyInt(85))))
        ELSE IF DLe(V2y, PyInt(130))
             THEN DSub(Decimal(22, -1), DMul(Decimal(833, -5), DSub(V2y, PyInt(100))))
        ELSE IF DLe(V2y, PyInt(260))
             THEN DSub(Decimal(195, -2), DMul(Decimal(523, -5), DSub(V2y, PyInt(130))))
        ELSE Decimal(14, -1)

Cd(V, y) ==
    LET V2y == DMul(DPow2(V), y)
    IN  IF IsErr(V2y) THEN V2y
        ELSE IF DLe(V2y, PyInt(40)) THEN Decimal(34, -1)
        ELSE IF DLe(V2y, PyInt(60))
             THEN DSub(Decimal(34, -1), DMul(Decimal(3, -2), DSub(V2y, PyInt(40))))
        ELSE IF DLe(V2y, PyInt(85))
             THEN DSub(Decimal(28, -1), DMul(Decimal(18, -3), DSub(V2y, PyInt(60))))
        ELSE IF DLe(V2y, PyInt(100))
             THEN DSub(Decimal(235, -2), DMul(Decimal(1, -2), DSub(V2y, PyInt(85))))
        ELSE IF DLe(V2y, PyInt(130))
             THEN DSub(Decimal(22, -1), DMul(Decimal(833, -5), DSub(V2y, PyInt(100))))
        ELSE IF DLe(V2y, PyInt(260))
             THEN DSub(Decimal(195, -2), DMul(Decimal(423, -5), DSub(V2y, PyInt(130))))
        ELSE Decimal(14, -1)

----------------------------------------------------------------------------
(* calculations.calculate_actual_debris_depth *)

\* the clamp without its floor
calculate_actual_debris_depth_NoFloor(water_depth, min_debris_depth, max_debris_depth) ==
    DMin(max_debris_depth, water_depth)

calculate_actual_debris_depth(water_depth, min_debris_depth, max_debris_depth) ==
    DMin(max_debris_depth, DMax(min_debris_depth, water_depth))

----------------------------------------------------------------------------
(* calculations.calculate_forces *)

\* constants.DEBRIS_SPAN, in m
DEBRIS_SPAN == 20

\* the exception raised by the first of the values of a statement sequence
\* that is an exception, "ok" when none is
RECURSIVE FirstExc(_)
FirstExc(vals) ==
    IF vals = <<>> THEN "ok"
    ELSE IF IsErr(Head(vals)) THEN Head(vals).t
    ELSE FirstExc(Tail(vals))

\* isinstance(leg_config, dict) and key in leg_config
HasKey(leg_config, key) == leg_config.isdict /\ key \in DOMAIN leg_config.items

\* the key calculate_forces requires of leg_config for a leg type
RequiredKey(leg_type) == IF leg_type = "PIER" THEN "diameter" ELSE "area"

\* the area of one face taken as the wetted area of a bored pile
WettedArea_NoSqrt2(a) ==
    IF a.leg_type = "PIER"
    THEN DMul(a.water_depth, a.leg_config.items["diameter"])
    ELSE a.leg_config.items["area"]

\* the wetted area of a bored pile scaled by the water depth
WettedArea_DepthScaled(a) ==
    IF a.leg_type = "PIER"
    THEN DMul(a.water_depth, a.leg_config.items["diameter"])
    ELSE DMul(a.water_depth, DMul(a.leg_config.items["area"], Sqrt2))

\* wetted area of the leg normal to the flow
WettedArea(a) ==
    IF a.leg_type = "PIER"
    THEN DMul(a.water_depth, a.leg_config.items["diameter"])
    ELSE DMul(a.leg_config.items["area"], Sqrt2)

\* L1 at mid-height for both leg types
HeightL1_MidHeight(a) == DDiv(a.water_depth, Decimal(2, 0))

\* height of application of F1
HeightL1(a) ==
    IF a.leg_type = "PIER"
    THEN DDiv(a.water_depth, Decimal(2, 0))
    ELSE DDiv(DMul(Decimal(2, 0), a.water_depth), Decimal(3, 0))

\* the dynamic pressure term without 0.5 * cd
DragForce_NoCoefficient(cd, V, area, load_factor) ==
    DMul(DMul(DPow2(V), area), load_factor)

\* 0.5 * cd * V^2 * area * load_factor, multiplied from the left
DragForce(cd, V, area, load_factor) ==
    DMul(DMul(DMul(DMul(Decimal(5, -1), cd), DPow2(V)), area), load_factor)

\* above-ground water flow force: exc names the exception raised, reads the
\* keys of leg_config that were subscripted
AboveGround(a) ==
    IF ~HasKey(a.leg_config, RequiredKey(a.leg_type))
    THEN [exc |-> "TypeError", reads |-> {}]
    ELSE LET Ad == WettedArea(a)
             F1 == DragForce(a.cd_pier, a.water_velocity, Ad, a.load_factor)
             L1 == HeightL1(a)
         IN  [exc |-> FirstExc(<<Ad, F1, L1>>), F1 |-> F1, L1 |-> L1,
              reads |-> {RequiredKey(a.leg_type)}]

\* L2 without the floor at half the mat depth
HeightL2_NoFloor(water_depth, debris_mat_depth) ==
    DSub(water_depth, DDiv(debris_mat_depth, Decimal(2, 0)))

\* L2 with the half mat depth added to the water depth
HeightL2_Surface(water_depth, debris_mat_depth) ==
    LET half == DDiv(debris_mat_depth, Decimal(2, 0))
        above == DAdd(water_depth, half)
    IN  IF IsErr(above) THEN above
        ELSE IF IsErr(half) THEN half
        ELSE DMax(above, half)

\* height of application of F2
HeightL2(water_depth, debris_mat_depth) ==
    LET half == DDiv(debris_mat_depth, Decimal(2, 0))
        above == DSub(water_depth, half)
    IN  IF IsErr(above) THEN above
        ELSE IF IsErr(half) THEN half
        ELSE DMax(above, half)

\* F2 and L2 from the debris area and the coefficient
DebrisBlock(a, Adeb, C_debris) ==
    LET F2 == DragForce(C_debris, a.water_velocity, Adeb, a.load_factor)
        L2 == HeightL2(a.water_depth, a.debris_mat_depth)
    IN  [exc |-> FirstExc(<<Adeb, C_debris, F2, L2>>), F2 |-> F2, L2 |-> L2]

\* the debris area limited to the water depth
DebrisForce_WaterLimited(a) ==
    DebrisBlock(a,
                DMul(DMin(a.debris_mat_depth, a.water_depth),
                     Decimal(DEBRIS_SPAN, 0)),
                Cd(a.water_velocity, a.water_depth))

\* debris force: Adeb = debris_mat_depth * debris_span and
\* C_debris = Cd(water_velocity, water_depth)
DebrisForce(a) ==
    DebrisBlock(a, DMul(a.debris_mat_depth, Decimal(DEBRIS_SPAN, 0)),
                Cd(a.water_velocity, a.water_depth))

\* log impact force
LogImpact_Newtons(a) ==
    LET acceleration == DDiv(DPow2(a.water_velocity),
                             DMul(Decimal(2, 0), a.stopping_distance))
        F3 == DMul(DMul(a.log_mass, acceleration), a.load_factor)
    IN  [exc |-> FirstExc(<<acceleration, F3>>), F3 |-> F3, L3 |-> a.water_depth]

LogImpact(a) ==
    LET acceleration == DDiv(DPow2(a.water_velocity),
                             DMul(Decimal(2, 0), a.stopping_distance))
        F3 == DDiv(DMul(DMul(a.log_mass, acceleration), a.load_factor),
                   Decimal(1000, 0))
    IN  [exc |-> FirstExc(<<acceleration, F3>>), F3 |-> F3, L3 |-> a.water_depth]

\* the check of the sign of pile_diameter alone
NegativeParameter_PileOnly(scour_depth, pile_diameter) ==
    DLt(pile_diameter, PyInt(0))

\* if scour_depth < 0 or pile_diameter < 0: raise ValueError
NegativeParameter(scour_depth, pile_diameter) ==
    DLt(scour_depth, PyInt(0)) \/ DLt(pile_diameter, PyInt(0))

\* a zero pile diameter of a bored pile is used as it is
ResolvePileDiameter_NoRaise(a, pile_diameter) ==
    IF DEq(pile_diameter, PyInt(0)) /\ a.leg_type = "PIER"
    THEN IF HasKey(a.leg_config, "diameter")
         THEN [exc |-> "ok", value |-> a.leg_config.items["diameter"],
               reads |-> {"diameter"}]
         ELSE [exc |-> "TypeError", reads |-> {}]
    ELSE [exc |-> "ok", value |-> pile_diameter, reads |-> {}]

\* a zero pile diameter of a pier is used as it is
ResolvePileDiameter_NoDefault(a, pile_diameter) ==
    IF DEq(pile_diameter, PyInt(0)) /\ a.leg_type # "PIER"
    THEN [exc |-> "ValueError", reads |-> {}]
    ELSE [exc |-> "ok", value |-> pile_diameter, reads |-> {}]

\* a zero pile diameter is replaced by the diameter of the configuration
\* whenever it has one, as the pier-only calculate_forces of main.py does
ResolvePileDiameter_AnyLeg(a, pile_diameter) ==
    IF DEq(pile_diameter, PyInt(0))
    THEN IF HasKey(a.leg_config, "diameter")
         THEN [exc |-> "ok", value |-> a.leg_config.items["diameter"],
               reads |-> {"diameter"}]
         ELSE IF a.leg_type = "PIER"
         THEN [exc |-> "TypeError", reads |-> {}]
         ELSE [exc |-> "ValueError", reads |-> {}]
    ELSE [exc |-> "ok", value |-> pile_diameter, reads |-> {}]

\* the pile diameter used below ground
ResolvePileDiameter(a, pile_diameter) ==
    IF DEq(pile_diameter, PyInt(0))
    THEN IF a.leg_type = "PIER"
         THEN IF HasKey(a.leg_config, "diameter")
              THEN [exc |-> "ok", value |-> a.leg_config.items["diameter"],
                    reads |-> {"diameter"}]
              ELSE [exc |-> "TypeError", reads |-> {}]
         ELSE [exc |-> "ValueError", reads |-> {}]
    ELSE [exc |-> "ok", value |-> pile_diameter, reads |-> {}]

\* Ld2 without its sign
ScouredPile_Unsigned(a, pile_diameter) ==
    LET Ad2 == DMul(a.scour_depth, pile_diameter)
        Fd2 == DragForce(a.cd_pile, a.water_velocity, Ad2, a.load_factor)
        Ld2 == DDiv(a.scour_depth, Decimal(2, 0))
    IN  [exc |-> FirstExc(<<Ad2, Fd2, Ld2>>), Fd2 |-> Fd2, Ld2 |-> Ld2]

\* water flow force on the scoured pile
ScouredPile(a, pile_diameter) ==
    LET Ad2 == DMul(a.scour_depth, pile_diameter)
        Fd2 == DragForce(a.cd_pile, a.water_velocity, Ad2, a.load_factor)
        Ld2 == DDiv(DNeg(a.scour_depth), Decimal(2, 0))
    IN  [exc |-> FirstExc(<<Ad2, Fd2, Ld2>>), Fd2 |-> Fd2, Ld2 |-> Ld2]

Omitted == [t |-> "omitted", m |-> 0, e |-> 0]

Failure(exc, reads) == [status |-> exc, reads |-> reads]

\* the body of calculate_forces in the order of its statements, from the
\* outcomes of its blocks: the first exception, or the eight values
Outcome(a, pile_diameter, above, debris, log, resolved, pile) ==
    LET reads == above.reads \cup resolved.reads
    IN  IF above.exc # "ok" THEN Failure(above.exc, above.reads)
        ELSE IF debris.exc # "ok" THEN Failure(debris.exc, above.reads)
        ELSE IF log.exc # "ok" THEN Failure(log.exc, above.reads)
        ELSE IF NegativeParameter(a.scour_depth, pile_diameter)
             THEN Failure("ValueError", above.reads)
        ELSE IF resolved.exc # "ok" THEN Failure(resolved.exc, reads)
        ELSE IF pile.exc # "ok" THEN Failure(pile.exc, reads)
        ELSE [status |-> "ok",
              F1 |-> above.F1, L1 |-> above.L1,
              F2 |-> debris.F2, L2 |-> debris.L2,
              F3 |-> log.F3, L3 |-> log.L3,
              Fd2 |-> pile.Fd2, Ld2 |-> pile.Ld2,
              reads |-> reads]

\* the blocks below the ground, with the pile diameter as resolved
BelowGround(a, pile_diameter, above, debris, log, resolved) ==
    Outcome(a, pile_diameter, above, debris, log, resolved,
            ScouredPile(a, resolved.value))

\* the blocks with the pile diameter as passed
Blocks(a, pile_diameter) ==
    BelowGround(a, pile_diameter, AboveGround(a), DebrisForce(a), LogImpact(a),
                ResolvePileDiameter(a, pile_diameter))

calculate_forces(a) ==
    Blocks(a, IF a.pile_diameter = Omitted THEN Decimal(0, 0) ELSE a.pile_diameter)

----------------------------------------------------------------------------
(* The pier-only kernel of main.py *)

\* Cd of main.py from V2y on
main_CdOf(V2y) ==
    IF IsErr(V2y) THEN V2y
    ELSE IF DLe(V2y, PyInt(40)) THEN Decimal(34, -1)
    ELSE IF DLe(V2y, PyInt(60))
         THEN DSub(Decimal(34, -1), DMul(Decimal(3, -2), DSub(V2y, PyInt(40))))
    ELSE IF DLe(V2y, PyInt(85))
         THEN DSub(Decimal(28, -1), DMul(Decimal(18, -3), DSub(V2y, PyInt(60))))
    ELSE IF DLe(V2y, PyInt(100))
         THEN DSub(Decimal(235, -2), DMul(Decimal(1, -2), DSub(V2y, PyInt(85))))
    ELSE IF DLe(V2y, PyInt(130))
         THEN DSub(Decimal(22, -1), DMul(Decimal(833, -5), DSub(V2y, PyInt(100))))
    ELSE IF DLe(V2y, PyInt(260))
         THEN DSub(Decimal(195, -2), DMul(Decimal(423, -5), DSub(V2y, PyInt(130))))
    ELSE Decimal(14, -1)

main_Cd(V, y) == main_CdOf(DMul(DPow2(V), y))

\* min(max_debris_depth, max(min_debris_depth, water_depth)) of main.py
main_calculate_actual_debris_depth(water_depth, min_debris_depth, max_debris_depth) ==
    DMin(max_debris_depth, DMax(min_debris_depth, water_depth))

\* F1 and L1 of the pier
main_AboveGround(a) ==
    LET Ad == DMul(a.water_depth, a.column_diameter)
        F1 == DMul(DMul(DMul(DMul(Decimal(5, -1), a.cd_pier),
                             DPow2(a.water_velocity)), Ad), a.load_factor)
        L1 == DDiv(a.water_depth, Decimal(2, 0))
    IN  [exc |-> FirstExc(<<Ad, F1, L1>>), F1 |-> F1, L1 |-> L1]

\* L2 from the two operands of max
main_HeightL2(upper, lower) ==
    [exc |-> FirstExc(<<lower, upper>>), L2 |-> DMax(upper, lower)]

\* F2 and L2 from the debris area and the coefficient
main_DebrisOf(a, Adeb, C_debris) ==
    LET F2 == DMul(DMul(DMul(DMul(Decimal(5, -1), C_debris),
                             DPow2(a.water_velocity)), Adeb), a.load_factor)
        half == DDiv(a.debris_mat_depth, Decimal(2, 0))
        height == main_HeightL2(DSub(a.water_depth, half), half)
    IN  [exc |-> IF FirstExc(<<Adeb, C_debris, F2>>) # "ok"
                 THEN FirstExc(<<Adeb, C_debris, F2>>) ELSE height.exc,
         F2 |-> F2, L2 |-> height.L2]

\* F2 and L2 of the debris mat: Adeb = debris_mat_depth * debris_span with
\* debris_span = Decimal("20.0"), C_debris = Cd(water_velocity, water_depth)
main_Debris(a) ==
    main_DebrisOf(a, DMul(a.debris_mat_depth, Decimal(200, -1)),
                  main_Cd(a.water_velocity, a.water_depth))

\* F3 and L3 of the log impact
main_LogImpact(a) ==
    LET acceleration == DDiv(DPow2(a.water_velocity),
                             DMul(Decimal(2, 0), a.stopping_distance))
        F3 == DDiv(DMul(DMul(a.log_mass, acceleration), a.load_factor),
                   Decimal(1000, 0))
    IN  [exc |-> FirstExc(<<acceleration, F3>>), F3 |-> F3, L3 |-> a.water_depth]

\* the scoured pile of main.py without the force on it
main_Pile_NoForce(a, pile_diameter) ==
    LET Ld2 == DDiv(DNeg(a.scour_depth), Decimal(2, 0))
    IN  [exc |-> FirstExc(<<Ld2>>), Fd2 |-> Decimal(0, 0), Ld2 |-> Ld2]

\* Fd2 and Ld2 of the scoured pile, the pile diameter as resolved
main_Pile(a, pile_diameter) ==
    LET Ad2 == DMul(a.scour_depth, pile_diameter)
        Fd2 == DMul(DMul(DMul(DMul(Decimal(5, -1), a.cd_pile),
                              DPow2(a.water_velocity)), Ad2), a.load_factor)
        Ld2 == DDiv(DNeg(a.scour_depth), Decimal(2, 0))
    IN  [exc |-> FirstExc(<<Ad2, Fd2, Ld2>>), Fd2 |-> Fd2, Ld2 |-> Ld2]

\* the statements of main.calculate_forces in their order: the first
\* exception, or the eight values
main_Outcome(a, pile_diameter, above, debris, log, pile) ==
    IF above.exc # "ok" THEN [status |-> above.exc]
    ELSE IF debris.exc # "ok" THEN [status |-> debris.exc]
    ELSE IF log.exc # "ok" THEN [status |-> log.exc]
    ELSE IF DLt(a.scour_depth, PyInt(0)) \/ DLt(pile_diameter, PyInt(0))
    THEN [status |-> "ValueError"]
    ELSE IF pile.exc # "ok" THEN [status |-> pile.exc]
    ELSE [status |-> "ok",
          F1 |-> above.F1, L1 |-> above.L1,
          F2 |-> debris.F2, L2 |-> debris.L2,
          F3 |-> log.F3, L3 |-> log.L3,
          Fd2 |-> pile.Fd2, Ld2 |-> pile.Ld2]

\* the blocks with the pile diameter as passed: a zero pile diameter is
\* replaced by the column diameter
main_Blocks(a, pile_diameter) ==
    main_Outcome(a, pile_diameter, main_AboveGround(a), main_Debris(a),
                 main_LogImpact(a),
                 main_Pile(a, IF DEq(pile_diameter, PyInt(0))
                              THEN a.column_diameter ELSE pile_diameter))

main_calculate_forces(a) ==
    main_Blocks(a, IF a.pile_diameter = Omitted THEN Decimal(0, 0)
                   ELSE a.pile_diameter)

----------------------------------------------------------------------------
(* The calls *)

NoCall == [fn |-> "none"]
NoRet == [status |-> "none"]

CdVelocities == {Decimal(v, 0) : v \in 0..MaxCdVelocity}
CdDepths == {Decimal(25 * k, -2) : k \in 0..MaxQuarterDepth}

HalfDepths == {Decimal(5 * k, -1) : k \in 0..MaxHalfDepth}

\* leg configurations: a PierConfig, a BoredPileConfig, a dict with both
\* keys, an empty dict, and a value that is no dict
Dict(items) == [isdict |-> TRUE, items |-> items]
EmptyItems == [k \in {} |-> Decimal(0, 0)]
LegConfigs ==
    { Dict([diameter |-> Decimal(25, -1)]),
      Dict([area |-> Decimal(20, 0)]),
      Dict([diameter |-> Decimal(25, -1), area |-> Decimal(20, 0)]),
      Dict(EmptyItems),
      [isdict |-> FALSE, items |-> EmptyItems] }

LegTypes == {"PIER", "BORED_PILE"}
WaterDepths == {Decimal(1, 0), Decimal(2, 0), Decimal(8, 0)}
WaterVelocities == {Decimal(0, 0), Decimal(2, 0), Decimal(3, 0)}
DebrisMatDepths == {Decimal(2, 0), Decimal(4, 0)}
CdPiers == {Decimal(7, -1)}
LogMasses == {Decimal(2000, 0)}
StoppingDistances == {Decimal(0, 0), Decimal(25, -3)}
LoadFactors == {Decimal(1, 0), Decimal(13, -1)}
PileDiameters == {Omitted, Decimal(-1, 0), Decimal(0, 0), Decimal(25, -1)}
CdPiles == {Decimal(0, 0), Decimal(7, -1)}
ScourDepths == {Decimal(-1, 0), Decimal(0, 0), Decimal(1, 0)}

\* the numeric parameters of calculate_forces
NumericParams ==
    {"water_depth", "water_velocity", "debris_mat_depth", "cd_pier", "log_mass",
     "stopping_distance", "load_factor", "pile_diameter", "cd_pile",
     "scour_depth", "leg_config"}

\* the arguments as Decimals
DecimalArgs ==
    [leg_type : LegTypes, leg_config : LegConfigs, water_depth : WaterDepths,
     water_velocity : WaterVelocities, debris_mat_depth : DebrisMatDepths,
     cd_pier : CdPiers, log_mass : LogMasses,
     stopping_distance : StoppingDistances, load_factor : LoadFactors,
     pile_diameter : PileDiameters, cd_pile : CdPiles, scour_depth : ScourDepths]

\* the F1 cases of test_forces.py: the pier case (2.5 m, 1.482 m, 1.944 m/s,
\* factor 1.0) and the bored pile case (20 m2, 3.0 m/s, cd 0.8, factor 1.3)
TestCases ==
    { [leg_type |-> "PIER", leg_config |-> Dict([diameter |-> Decimal(25, -1)]),
       water_depth |-> Decimal(1482, -3), water_velocity |-> Decimal(1944, -3),
       debris_mat_depth |-> Decimal(0, 0), cd_pier |-> Decimal(7, -1),
       log_mass |-> Decimal(1, 0), stopping_distance |-> Decimal(1, 0),
       load_factor |-> Decimal(1, 0), pile_diameter |-> Omitted,
       cd_pile |-> Decimal(0, 0), scour_depth |-> Decimal(0, 0)],
      [leg_type |-> "BORED_PILE", leg_config |-> Dict([area |-> Decimal(20, 0)]),
       water_depth |-> Decimal(1, 0), water_velocity |-> Decimal(3, 0),
       debris_mat_depth |-> Decimal(0, 0), cd_pier |-> Decimal(8, -1),
       log_mass |-> Decimal(0, 0), stopping_distance |-> Decimal(1, 0),
       load_factor |-> Decimal(13, -1), pile_diameter |-> Decimal(25, -1),
       cd_pile |-> Decimal(7, -1), scour_depth |-> Decimal(0, 0)],
      [leg_type |-> "PIER", leg_config |-> Dict([diameter |-> Decimal(25, -1)]),
       water_depth |-> Decimal(1, 0), water_velocity |-> Decimal(1944, -3),
       debris_mat_depth |-> Decimal(0, 0), cd_pier |-> Decimal(7, -1),
       log_mass |-> Decimal(0, 0), stopping_distance |-> Decimal(1, 0),
       load_factor |-> Decimal(1, 0), pile_diameter |-> Decimal(25, -1),
       cd_pile |-> Decimal(7, -1), scour_depth |-> Decimal(1482, -3)],
      [leg_type |-> "PIER", leg_config |-> Dict([diameter |-> Decimal(25, -1)]),
       water_depth |-> Decimal(1482, -3), water_velocity |-> Decimal(1944, -3),
       debris_mat_depth |-> Decimal(1482, -3), cd_pier |-> Decimal(7, -1),
       log_mass |-> Decimal(0, 0), stopping_distance |-> Decimal(1, 0),
       load_factor |-> Decimal(1, 0), pile_diameter |-> Omitted,
       cd_pile |-> Decimal(0, 0), scour_depth |-> Decimal(0, 0)],
      [leg_type |-> "PIER", leg_config |-> Dict([diameter |-> Decimal(25, -1)]),
       water_depth |-> Decimal(1193, -3), water_velocity |-> Decimal(863, -3),
       debris_mat_depth |-> Decimal(0, 0), cd_pier |-> Decimal(7, -1),
       log_mass |-> Decimal(10000, 0), stopping_distance |-> Decimal(25, -3),
       load_factor |-> Decimal(1, 0), pile_diameter |-> Omitted,
       cd_pile |-> Decimal(0, 0), scour_depth |-> Decimal(0, 0)] }

\* the preview of app.main: the widgets bound their values (depth and
\* velocity at least 0.1, max debris depth at least the min debris depth)
PreviewDepths == {Decimal(5, -1), Decimal(1, 0), Decimal(2, 0), Decimal(8, 0)}
PreviewVelocities == {Decimal(3, -1), Decimal(3, 0)}
PreviewDebrisDepths == {Decimal(12, -1), Decimal(3, 0)}
PreviewPileDiameters == {Decimal(0, 0), Decimal(25, -1)}
PreviewScourDepths == {Decimal(0, 0), Decimal(1, 0)}

\* the arguments app.main passes to calculate_forces for the preview
PreviewArgs(leg_type, depth, velocity, lo, hi, pile_diameter, scour_depth) ==
    [leg_type |-> leg_type,
     leg_config |-> IF leg_type = "PIER" THEN Dict([diameter |-> Decimal(25, -1)])
                    ELSE Dict([area |-> Decimal(20, 0)]),
     water_depth |-> depth, water_velocity |-> velocity,
     debris_mat_depth |-> calculate_actual_debris_depth(depth, lo, hi),
     cd_pier |-> IF leg_type = "PIER" THEN Decimal(7, -1) ELSE Decimal(8, -1),
     log_mass |-> Decimal(2000, 0), stopping_distance |-> Decimal(75, -3),
     load_factor |-> Decimal(13, -1), pile_diameter |-> pile_diameter,
     cd_pile |-> Decimal(7, -1), scour_depth |-> scour_depth]

\* the arguments with parameter p handed over as a float ("none": all Decimal)
WithFloat(a, p) ==
    IF p = "none" THEN a
    ELSE IF p = "leg_config"
    THEN [a EXCEPT !.leg_config.items =
              [k \in DOMAIN a.leg_config.items |-> AsFloat(a.leg_config.items[k])]]
    ELSE [a EXCEPT ![p] = AsFloat(a[p])]

Init ==
    /\ call = NoCall
    /\ ret = NoRet

CallCd ==
    /\ call = NoCall
    /\ \E V \in CdVelocities, y \in CdDepths :
        /\ call' = [fn |-> "Cd", V |-> V, y |-> y, x |-> DMul(DPow2(V), y)]
        /\ ret' = [status |-> "ok", value |-> Cd(V, y)]

CallDebrisDepth ==
    /\ call = NoCall
    /\ \E wd \in HalfDepths, lo \in HalfDepths, hi \in HalfDepths :
        /\ call' = [fn |-> "calculate_actual_debris_depth", water_depth |-> wd,
                    min_debris_depth |-> lo, max_debris_depth |-> hi]
        /\ ret' = [status |-> "ok",
                   value |-> calculate_actual_debris_depth(wd, lo, hi)]

\* calculate_forces is called with the arguments d, parameter p as a float
Evaluate(d, p) ==
    /\ ~(p = "pile_diameter" /\ d.pile_diameter = Omitted)
    /\ call' = [fn |-> "calculate_forces", args |-> WithFloat(d, p), float |-> p]
    /\ ret' = calculate_forces(WithFloat(d, p))

CallForces ==
    /\ call = NoCall
    /\ \/ \E d \in DecimalArgs, p \in NumericParams \cup {"none"} : Evaluate(d, p)
       \/ \E d \in TestCases, p \in NumericParams \cup {"none"} : Evaluate(d, p)

CallPreview ==
    /\ call = NoCall
    /\ \E leg_type \in LegTypes, depth \in PreviewDepths,
          velocity \in PreviewVelocities, lo \in PreviewDebrisDepths,
          hi \in PreviewDebrisDepths, pile_diameter \in PreviewPileDiameters,
          scour_depth \in PreviewScourDepths :
        /\ DLe(lo, hi)
        /\ LET a == PreviewArgs(leg_type, depth, velocity, lo, hi,
                                pile_diameter, scour_depth)
           IN  /\ call' = [fn |-> "preview", args |-> a, float |-> "none",
                           min_debris_depth |-> lo, max_debris_depth |-> hi]
               /\ ret' = calculate_forces(a)

----------------------------------------------------------------------------
(* The batch layer: process_dataframe of data_processing.py                *)
(*                                                                         *)
(* A dataframe is a record [headers, columns, rows]: headers tells whether *)
(* the column names still carry line breaks or surrounding blanks          *)
(* ("wrapped") or not ("plain"), columns is the set of the normalised      *)
(* column names, a name being a pair <<event, title>>, and rows is the     *)
(* sequence of the rows, each a function from the columns to cells.  A     *)
(* cell is a number, NaN (an empty cell), a text, or the text str(x) that  *)
(* spells a number x.                                                      *)

Number(x) == [kind |-> "number", value |-> x]
NaN == [kind |-> "nan"]
Text(s) == [kind |-> "text", text |-> s]
Str(x) == [kind |-> "str", value |-> x]

VELOCITY_COL(event) == <<event, "Event Peak Velocity">>
DEPTH_COL(event) == <<event, "Event Peak Flood Depth">>
SCOUR_COL(event) == <<event, "Event Scour">>

\* a column the batch layer does not look at
PierColumn == <<"", "Pier">>

ForceFields == {"F1", "L1", "F2", "L2", "F3", "L3", "Fd2", "Ld2"}

\* pd.to_numeric(errors="coerce") of one cell
to_numeric(cell) ==
    IF cell.kind = "str" THEN Number(AsFloat(cell.value))
    ELSE IF cell.kind = "text" THEN NaN
    ELSE cell

\* df[col] = pd.to_numeric(df[col], errors="coerce")
CoerceColumn(df, col) ==
    [df EXCEPT !.rows =
        [i \in DOMAIN df.rows |-> [df.rows[i] EXCEPT ![col] = to_numeric(@)]]]

\* pd.isna(val) or val == np.nan: the comparison with np.nan is never true
is_invalid_value(val) == val.kind = "nan"

\* Decimal(str(x)) of a float x
DecimalOfStr(x) == [t |-> "dec", m |-> x.m, e |-> x.e]

\* the parameters of calculate_forces, and those with a default value
Parameters ==
    {"leg_type", "leg_config", "water_depth", "water_velocity",
     "debris_mat_depth", "cd_pier", "log_mass", "stopping_distance",
     "load_factor", "pile_diameter", "cd_pile", "scour_depth"}
Defaults ==
    [pile_diameter |-> Omitted, cd_pile |-> Decimal(0, 0),
     scour_depth |-> Decimal(0, 0)]

\* a call of calculate_forces with keyword arguments: an unexpected keyword
\* or a missing required argument is a TypeError, raised before the body
CallWithKeywords(kw) ==
    IF ~(DOMAIN kw \subseteq Parameters) THEN Failure("TypeError", {})
    ELSE IF ~((Parameters \ DOMAIN Defaults) \subseteq DOMAIN kw)
    THEN Failure("TypeError", {})
    ELSE calculate_forces([p \in Parameters |->
                              IF p \in DOMAIN kw THEN kw[p] ELSE Defaults[p]])

\* the keyword arguments with the water depth as the debris mat depth
RowKeywords_RawDebris(inputs, leg_type, leg_config, factor, row) ==
    LET event == inputs["selected_event"]
        decimal_water_depth == DecimalOfStr(row[DEPTH_COL(event)].value)
    IN  [leg_type |-> leg_type,
         leg_config |-> leg_config,
         water_depth |-> decimal_water_depth,
         average_water_velocity |-> DecimalOfStr(row[VELOCITY_COL(event)].value),
         debris_mat_depth |-> decimal_water_depth,
         cd_pier |-> inputs["cd"],
         log_mass |-> inputs["log_mass"],
         stopping_distance |-> inputs["stopping_distance"],
         load_factor |-> inputs["load_factor"],
         water_surface_velocity_factor |-> factor,
         pile_diameter |-> inputs["pile_diameter"],
         cd_pile |-> inputs["cd_pile"],
         scour_depth |-> DecimalOfStr(row[SCOUR_COL(event)].value)]

\* the keyword arguments process_dataframe passes for one row
RowKeywords(inputs, leg_type, leg_config, factor, row) ==
    LET event == inputs["selected_event"]
        decimal_water_depth == DecimalOfStr(row[DEPTH_COL(event)].value)
    IN  [leg_type |-> leg_type,
         leg_config |-> leg_config,
         water_depth |-> decimal_water_depth,
         average_water_velocity |-> DecimalOfStr(row[VELOCITY_COL(event)].value),
         debris_mat_depth |->
             calculate_actual_debris_depth(decimal_water_depth,
                                           inputs["min_debris_depth"],
                                           inputs["max_debris_depth"]),
         cd_pier |-> inputs["cd"],
         log_mass |-> inputs["log_mass"],
         stopping_distance |-> inputs["stopping_distance"],
         load_factor |-> inputs["load_factor"],
         water_surface_velocity_factor |-> factor,
         pile_diameter |-> inputs["pile_diameter"],
         cd_pile |-> inputs["cd_pile"],
         scour_depth |-> DecimalOfStr(row[SCOUR_COL(event)].value)]

\* the keys of inputs the loop body reads
RowKeys ==
    {"min_debris_depth", "max_debris_depth", "pile_diameter", "cd", "log_mass",
     "stopping_distance", "load_factor", "cd_pile"}

\* the results recorded for the forces calculate_forces returned when
\* called with the arguments kw
Recorded(forces, kw) ==
    IF forces.status # "ok" THEN [status |-> forces.status, calls |-> <<kw>>]
    ELSE [status |-> "ok", calls |-> <<kw>>,
          result |-> [f \in ForceFields |-> Number(AsFloat(forces[f]))]]

\* the call of calculate_forces for one row, its arguments built first
Evaluated(kw) == Recorded(CallWithKeywords(kw), kw)

\* the results of a row with an invalid value
NotApplicable ==
    [status |-> "ok", calls |-> <<>>,
     result |-> [f \in ForceFields |-> Text("N/A")]]

\* the results of one row, or the exception its evaluation raises
RowResult(inputs, leg_type, leg_config, factor, row) ==
    LET event == inputs["selected_event"]
    IN  IF \/ is_invalid_value(row[DEPTH_COL(event)])
           \/ is_invalid_value(row[VELOCITY_COL(event)])
           \/ is_invalid_value(row[SCOUR_COL(event)])
        THEN NotApplicable
        ELSE IF ~(RowKeys \subseteq DOMAIN inputs)
        THEN [status |-> "KeyError", calls |-> <<>>]
        ELSE Evaluated(RowKeywords(inputs, leg_type, leg_config, factor, row))

\* the results of a row followed by those of the rows after it: an
\* exception ends the loop.  calls lists the arguments of the calls of
\* calculate_forces the loop has made
Gather(this, rest) ==
    IF this.status # "ok"
    THEN [status |-> this.status, results |-> <<>>, calls |-> this.calls]
    ELSE IF rest.status # "ok"
    THEN [rest EXCEPT !.calls = this.calls \o rest.calls]
    ELSE [status |-> "ok", results |-> <<this.result>> \o rest.results,
          calls |-> this.calls \o rest.calls]

\* the loop over the rows from row i on: the list of the results, or the
\* first exception
RECURSIVE RowResults(_, _, _, _, _, _)
RowResults(inputs, leg_type, leg_config, factor, rows, i) ==
    IF i > Len(rows) THEN [status |-> "ok", results |-> <<>>, calls |-> <<>>]
    ELSE Gather(RowResult(inputs, leg_type, leg_config, factor, rows[i]),
                RowResults(inputs, leg_type, leg_config, factor, rows, i + 1))

\* combined_df.replace([inf, -inf, nan], "N/A") of one cell
ReplaceNaN(cell) == IF cell.kind = "nan" THEN Text("N/A") ELSE cell

\* astype(str) of one cell of a column of dtype object
AsStr(cell) == IF cell.kind = "number" THEN Str(cell.value) ELSE cell

\* a column is of dtype object when it holds a string
IsObject(cells) == \E c \in cells : c.kind \in {"text", "str"}

\* combined_df.replace([inf, -inf, nan], "N/A") of the rows of a part (the
\* original columns or the appended ones) of the combined dataframe
Replaced(rows) ==
    [i \in DOMAIN rows |-> [c \in DOMAIN rows[i] |-> ReplaceNaN(rows[i][c])]]

\* the conversion of the object columns of the rows after the replacement
Converted(replaced) ==
    [i \in DOMAIN replaced |->
        [c \in DOMAIN replaced[i] |->
            IF IsObject({replaced[j][c] : j \in DOMAIN replaced})
            THEN AsStr(replaced[i][c]) ELSE replaced[i][c]]]

\* a part of the combined dataframe after the replacement and the
\* conversion of the object columns
Finish(rows) == Converted(Replaced(rows))

\* the outcome of a call that raises: no output, df as the call left it
Raised(exc, df) == [status |-> exc, df |-> df, calls |-> <<>>]

\* the rows of the combined dataframe: the original columns and the
\* appended results of each row
Concat(original, results) ==
    [i \in DOMAIN original |-> [original |-> original[i], results |-> results[i]]]

\* the end of process_dataframe for the outcome of the loop: the combined
\* dataframe, unless the loop raised
Combined(df, looped) ==
    IF looped.status # "ok"
    THEN [status |-> looped.status, df |-> df, calls |-> looped.calls]
    ELSE [status |-> "ok", df |-> df, calls |-> looped.calls,
          rows |-> Concat(Finish(df.rows), Finish(looped.results))]

\* process_dataframe(df, inputs): the returned dataframe (each row as the
\* original columns and the appended results) or the exception, and df as
\* the call leaves it
process_dataframe(df, inputs) ==
    LET event == inputs["selected_event"]
        df0 == [df EXCEPT !.headers = "plain"]
        df1 == CoerceColumn(df0, VELOCITY_COL(event))
        df2 == CoerceColumn(df1, DEPTH_COL(event))
        df3 == CoerceColumn(df2, SCOUR_COL(event))
        missing_cols == {VELOCITY_COL(event), DEPTH_COL(event), SCOUR_COL(event)}
                            \ df.columns
        leg_type == inputs["leg_type"]
        key == IF leg_type = "PIER" THEN "column_diameter" ELSE "wetted_area"
        leg_config == IF leg_type = "PIER"
                      THEN Dict([diameter |-> inputs["column_diameter"]])
                      ELSE Dict([area |-> inputs["wetted_area"]])
    IN  IF VELOCITY_COL(event) \notin df.columns THEN Raised("KeyError", df0)
        ELSE IF DEPTH_COL(event) \notin df.columns THEN Raised("KeyError", df1)
        ELSE IF SCOUR_COL(event) \notin df.columns THEN Raised("KeyError", df2)
        ELSE IF missing_cols # {} THEN Raised("ValueError", df3)
        ELSE IF key \notin DOMAIN inputs THEN Raised("KeyError", df3)
        ELSE IF "water_surface_velocity_factor" \notin DOMAIN inputs
        THEN Raised("KeyError", df3)
        ELSE Combined(df3, RowResults(inputs, leg_type, leg_config,
                                      inputs["water_surface_velocity_factor"],
                                      df3.rows, 1))

\* the dataframes and the inputs of the batch calls
AllColumns(event) ==
    {PierColumn, DEPTH_COL(event), VELOCITY_COL(event), SCOUR_COL(event)}
ColumnSets ==
    { AllColumns("PMF"),
      AllColumns("PMF") \ {SCOUR_COL("PMF")},
      AllColumns("PMF") \ {DEPTH_COL("PMF"), VELOCITY_COL("PMF")} }
CellsOf(column) ==
    IF column = PierColumn THEN {Text("P1")}
    ELSE IF column[2] = "Event Peak Flood Depth"
    THEN {Number(Float(8, 0)), Str(Decimal(2, 0))}
    ELSE IF column[2] = "Event Peak Velocity"
    THEN {Number(Float(3, 0)), NaN, Text("fast")}
    ELSE {Number(Float(1, 0)), Number(Float(-1, 0)), NaN}
AllCells == UNION {CellsOf(c) : c \in AllColumns("PMF")}
RowsOf(columns) ==
    {row \in [columns -> AllCells] : \A c \in columns : row[c] \in CellsOf(c)}
RowLists(columns) ==
    UNION {[1..n -> RowsOf(columns)] : n \in 0..MaxRows}
Dataframes ==
    UNION {[headers : {"plain", "wrapped"}, columns : {columns},
            rows : RowLists(columns)] : columns \in ColumnSets}

\* the inputs app.main collects from the widgets
AppInputs(leg_type) ==
    [k \in {"selected_event", "leg_type",
            IF leg_type = "PIER" THEN "column_diameter" ELSE "wetted_area",
            "cd", "pile_diameter", "cd_pile", "scour_depth", "min_debris_depth",
            "max_debris_depth", "log_mass", "stopping_distance", "load_factor"} |->
        CASE k = "selected_event" -> "PMF"
          [] k = "leg_type" -> leg_type
          [] k = "column_diameter" -> Decimal(25, -1)
          [] k = "wetted_area" -> Decimal(20, 0)
          [] k = "cd" -> IF leg_type = "PIER" THEN Decimal(7, -1) ELSE Decimal(8, -1)
          [] k = "pile_diameter" -> Decimal(25, -1)
          [] k = "cd_pile" -> Decimal(7, -1)
          [] k = "scour_depth" -> Decimal(1, 0)
          [] k = "min_debris_depth" -> Decimal(12, -1)
          [] k = "max_debris_depth" -> Decimal(3, 0)
          [] k = "log_mass" -> Decimal(2000, 0)
          [] k = "stopping_distance" -> Decimal(75, -3)
          [] k = "load_factor" -> Decimal(13, -1)]

\* the inputs with the key the batch layer reads besides
WithFactor(inputs) ==
    [k \in DOMAIN inputs \cup {"water_surface_velocity_factor"} |->
        IF k \in DOMAIN inputs THEN inputs[k] ELSE Decimal(1, 0)]

\* the inputs with a negative pile diameter or without stopping distance
BatchVariants(inputs) ==
    { [inputs EXCEPT !["pile_diameter"] = Decimal(-1, 0)],
      [inputs EXCEPT !["stopping_distance"] = Decimal(0, 0)] }

BatchInputs ==
    {AppInputs(leg_type) : leg_type \in LegTypes}
        \cup {WithFactor(AppInputs(leg_type)) : leg_type \in LegTypes}
        \cup BatchVariants(WithFactor(AppInputs("BORED_PILE")))
        \cup {[WithFactor(AppInputs("BORED_PILE")) EXCEPT
                  !["pile_diameter"] = Decimal(0, 0)]}

CallProcessDataframe ==
    /\ call = NoCall
    /\ \E df \in Dataframes, inputs \in BatchInputs :
        /\ call' = [fn |-> "process_dataframe", df |-> df, inputs |-> inputs]
        /\ ret' = process_dataframe(df, inputs)

----------------------------------------------------------------------------
(* The batch layer of main.py.  Its process_dataframe normalises the       *)
(* column names, coerces the three event columns, tells the invalid rows   *)
(* and combines the results with the same statements as the one of         *)
(* data_processing.py; it differs in the loop body, which calls            *)
(* main.calculate_forces with positional arguments.                        *)

\* the keys of inputs the loop body of main.process_dataframe reads
main_RowKeys ==
    {"min_debris_depth", "max_debris_depth", "pile_diameter", "column_diameter",
     "cd", "log_mass", "stopping_distance", "load_factor", "cd_pile"}

\* the arguments main.process_dataframe passes for one row
main_RowArguments(inputs, row) ==
    LET event == inputs["selected_event"]
        decimal_water_depth == DecimalOfStr(row[DEPTH_COL(event)].value)
        actual_pile_diameter ==
            IF DLt(PyInt(0), AsFloat(inputs["pile_diameter"]))
            THEN inputs["pile_diameter"] ELSE inputs["column_diameter"]
    IN  [column_diameter |-> inputs["column_diameter"],
         water_depth |-> decimal_water_depth,
         water_velocity |-> DecimalOfStr(row[VELOCITY_COL(event)].value),
         debris_mat_depth |->
             main_calculate_actual_debris_depth(decimal_water_depth,
                                                inputs["min_debris_depth"],
                                                inputs["max_debris_depth"]),
         cd_pier |-> inputs["cd"],
         log_mass |-> inputs["log_mass"],
         stopping_distance |-> inputs["stopping_distance"],
         load_factor |-> inputs["load_factor"],
         pile_diameter |-> actual_pile_diameter,
         cd_pile |-> inputs["cd_pile"],
         scour_depth |-> DecimalOfStr(row[SCOUR_COL(event)].value)]

\* the call of main.calculate_forces for one row and what is recorded of it
main_Evaluated(args) == Recorded(main_calculate_forces(args), args)

\* the results of one row, or the exception its evaluation raises
main_RowResult(inputs, row) ==
    LET event == inputs["selected_event"]
    IN  IF \/ is_invalid_value(row[DEPTH_COL(event)])
           \/ is_invalid_value(row[VELOCITY_COL(event)])
           \/ is_invalid_value(row[SCOUR_COL(event)])
        THEN NotApplicable
        ELSE IF ~(main_RowKeys \subseteq DOMAIN inputs)
        THEN [status |-> "KeyError", calls |-> <<>>]
        ELSE main_Evaluated(main_RowArguments(inputs, row))

\* the loop over the rows from row i on
RECURSIVE main_RowResults(_, _, _)
main_RowResults(inputs, rows, i) ==
    IF i > Len(rows) THEN [status |-> "ok", results |-> <<>>, calls |-> <<>>]
    ELSE Gather(main_RowResult(inputs, rows[i]),
                main_RowResults(inputs, rows, i + 1))

\* main.process_dataframe(df, inputs)
main_process_dataframe(df, inputs) ==
    LET event == inputs["selected_event"]
        df0 == [df EXCEPT !.headers = "plain"]
        df1 == CoerceColumn(df0, VELOCITY_COL(event))
        df2 == CoerceColumn(df1, DEPTH_COL(event))
        df3 == CoerceColumn(df2, SCOUR_COL(event))
        missing_cols == {VELOCITY_COL(event), DEPTH_COL(event), SCOUR_COL(event)}
                            \ df.columns
    IN  IF VELOCITY_COL(event) \notin df.columns THEN Raised("KeyError", df0)
        ELSE IF DEPTH_COL(event) \notin df.columns THEN Raised("KeyError", df1)
        ELSE IF SCOUR_COL(event) \notin df.columns THEN Raised("KeyError", df2)
        ELSE IF missing_cols # {} THEN Raised("ValueError", df3)
        ELSE Combined(df3, main_RowResults(inputs, df3.rows, 1))

\* the inputs main.main collects from the widgets
MainInputs ==
    [k \in DOMAIN AppInputs("PIER") \ {"leg_type"} |-> AppInputs("PIER")[k]]

MainBatchInputs == {MainInputs} \cup BatchVariants(MainInputs)

CallMainProcessDataframe ==
    /\ call = NoCall
    /\ \E df \in Dataframes, inputs \in MainBatchInputs :
        /\ call' = [fn |-> "main.process_dataframe", df |-> df, inputs |-> inputs]
        /\ ret' = main_process_dataframe(df, inputs)

\* the arguments of main.calculate_forces for those of a pier
ToMain(d) ==
    [column_diameter |-> d.leg_config.items["diameter"],
     water_depth |-> d.water_depth, water_velocity |-> d.water_velocity,
     debris_mat_depth |-> d.debris_mat_depth, cd_pier |-> d.cd_pier,
     log_mass |-> d.log_mass, stopping_distance |-> d.stopping_distance,
     load_factor |-> d.load_factor, pile_diameter |-> d.pile_diameter,
     cd_pile |-> d.cd_pile, scour_depth |-> d.scour_depth]

PierArgs ==
    {d \in DecimalArgs : d.leg_type = "PIER"
                           /\ d.leg_config = Dict([diameter |-> Decimal(25, -1)])}
PierTestCases == {d \in TestCases : d.leg_type = "PIER"}
MainArgs == {ToMain(d) : d \in PierArgs \cup PierTestCases}

\* the numeric parameters of main.calculate_forces
MainNumericParams ==
    {"column_diameter", "water_depth", "water_velocity", "debris_mat_depth",
     "cd_pier", "log_mass", "stopping_distance", "load_factor", "pile_diameter",
     "cd_pile", "scour_depth"}

\* the arguments with parameter p handed over as a float
MainWithFloat(a, p) == IF p = "none" THEN a ELSE [a EXCEPT ![p] = AsFloat(a[p])]

CallMainForces ==
    /\ call = NoCall
    /\ \E d \in MainArgs, p \in MainNumericParams \cup {"none"} :
        /\ ~(p = "pile_diameter" /\ d.pile_diameter = Omitted)
        /\ call' = [fn |-> "main.calculate_forces", args |-> MainWithFloat(d, p),
                    float |-> p]
        /\ ret' = main_calculate_forces(MainWithFloat(d, p))

\* the caller has taken the result (or the exception); every call is a
\* fresh evaluation, nothing is kept from one call to the next
Return ==
    /\ call # NoCall
    /\ call' = NoCall
    /\ ret' = NoRet

Next ==
    \/ CallCd \/ CallDebrisDepth \/ CallForces \/ CallPreview
    \/ CallProcessDataframe \/ CallMainForces \/ CallMainProcessDataframe
    \/ Return

Spec == Init /\ [][Next]_vars

----------------------------------------------------------------------------
(* Vocabulary of the properties *)

IsCd == call.fn = "Cd"
IsDebrisDepth == call.fn = "calculate_actual_debris_depth"
IsForces == call.fn = "calculate_forces"

Zero == Decimal(0, 0)

\* the pile diameter the call passes, the default when it passes none
PassedPileDiameter(a) == IF a.pile_diameter = Omitted THEN Zero ELSE a.pile_diameter

\* the arguments other than pile_diameter and scour_depth are valid: the
\* configuration fits the leg type, depth and stopping distance are positive
ValidBase(a) ==
    /\ HasKey(a.leg_config, RequiredKey(a.leg_type))
    /\ DLt(Zero, a.water_depth)
    /\ DLe(Zero, a.water_velocity)
    /\ DLt(Zero, a.stopping_distance)

\* every argument is valid
ValidArgs(a) ==
    /\ ValidBase(a)
    /\ DLe(Zero, a.scour_depth)
    /\ DLe(Zero, PassedPileDiameter(a))
    /\ a.leg_type = "BORED_PILE" => DLt(Zero, PassedPileDiameter(a))

\* x * 10^7 for x = V^2 * y in hundredths, by the table of the specification
CdTable(x100) ==
    CASE x100 <= 4000 -> 34000000
      [] 4000 < x100 /\ x100 <= 6000 -> 34000000 - 3000 * (x100 - 4000)
      [] 6000 < x100 /\ x100 <= 8500 -> 28000000 - 1800 * (x100 - 6000)
      [] 8500 < x100 /\ x100 <= 10000 -> 23500000 - 1000 * (x100 - 8500)
      [] 10000 < x100 /\ x100 <= 13000 -> 22000000 - 833 * (x100 - 10000)
      [] 13000 < x100 /\ x100 <= 26000 -> 19500000 - 423 * (x100 - 13000)
      [] x100 > 26000 -> 14000000

\* the coefficient the docstring table gives at a breakpoint, * 100
DocumentedEndpoint(x) ==
    CASE x = 40 -> 340 [] x = 60 -> 280 [] x = 85 -> 235
      [] x = 100 -> 220 [] x = 130 -> 195 [] x = 260 -> 140

Breakpoints == {40, 60, 85, 100, 130, 260}

----------------------------------------------------------------------------
(* C1: with water_velocity = 0 and otherwise valid arguments,              *)
(* calculate_forces returns F1 = F2 = F3 = 0, and L1, L2, L3 are the       *)
(* geometry values, the same it returns for every other velocity:          *)
(* L1 = water_depth/2 (Pier) or 2*water_depth/3 (BoredPile, to the last    *)
(* digit kept), L2 = max(water_depth - d/2, d/2), L3 = water_depth.        *)
C1_ZeroVelocity ==
    (IsForces /\ call.float = "none" /\ ValidArgs(call.args)
        /\ call.args.water_velocity = Zero)
    => LET a == call.args
           wd == a.water_depth
           d == a.debris_mat_depth
       IN  /\ ret.status = "ok"
           /\ ret.F1 = Zero /\ ret.F2 = Zero /\ ret.F3 = Zero
           /\ IF a.leg_type = "PIER"
              THEN 2 * At(ret.L1, -Prec) = At(wd, -Prec)
              ELSE Abs(3 * At(ret.L1, -Prec) - 2 * At(wd, -Prec)) <= 1
           /\ 2 * At(ret.L2, -1) =
                 IF 2 * At(wd, -1) - At(d, -1) >= At(d, -1)
                 THEN 2 * At(wd, -1) - At(d, -1) ELSE At(d, -1)
           /\ ret.L3 = wd
           /\ \A v \in WaterVelocities :
                 LET r == calculate_forces([a EXCEPT !.water_velocity = v])
                 IN  r.status = "ok" /\ r.L1 = ret.L1 /\ r.L2 = ret.L2
                     /\ r.L3 = ret.L3

C1_Witness ==
    /\ IsForces /\ call.float = "none" /\ ValidArgs(call.args)
    /\ call.args.water_velocity = Zero
    /\ call.args.leg_type = "BORED_PILE"
    /\ DLt(call.args.water_depth, call.args.debris_mat_depth)
    /\ ret.status = "ok" /\ ret.F3 = Zero
    /\ ret.L2 = Decimal(2, 0)

(* C2: a BORED_PILE call with pile_diameter omitted or zero and otherwise  *)
(* valid arguments (scour_depth = 0 included) fails with ValueError.       *)
C2_BoredPileNeedsPileDiameter ==
    (IsForces /\ call.float = "none" /\ ValidBase(call.args)
        /\ call.args.leg_type = "BORED_PILE"
        /\ DLe(Zero, call.args.scour_depth)
        /\ PassedPileDiameter(call.args) = Zero)
    => ret.status = "ValueError"

C2_Witness ==
    /\ IsForces /\ call.float = "none" /\ ValidBase(call.args)
    /\ call.args.leg_type = "BORED_PILE"
    /\ call.args.scour_depth = Zero
    /\ call.args.pile_diameter = Omitted
    /\ ret.status = "ValueError"

(* C3: a PIER call with pile_diameter omitted or zero and otherwise valid  *)
(* arguments succeeds with Fd2 = 0.5 * cd_pile * V^2 * scour_depth *       *)
(* diameter * load_factor, the result of passing pile_diameter = diameter. *)
C3_PierDefaultsPileDiameter ==
    (IsForces /\ call.float = "none" /\ ValidArgs(call.args)
        /\ call.args.leg_type = "PIER"
        /\ PassedPileDiameter(call.args) = Zero)
    => LET a == call.args
           diameter == a.leg_config.items["diameter"]
       IN  /\ ret.status = "ok"
           /\ ret.Fd2 = DMul(DMul(DMul(DMul(DMul(Decimal(5, -1), a.cd_pile),
                                  DPow2(a.water_velocity)), a.scour_depth),
                                  diameter), a.load_factor)
           /\ ret = calculate_forces([a EXCEPT !.pile_diameter = diameter])

C3_Witness ==
    /\ IsForces /\ call.float = "none" /\ ValidArgs(call.args)
    /\ call.args.leg_type = "PIER"
    /\ call.args.pile_diameter = Omitted
    /\ call.args.scour_depth = Decimal(1, 0)
    /\ call.args.water_velocity = Decimal(3, 0)
    /\ call.args.cd_pile = Decimal(7, -1)
    /\ ret.status = "ok"
    /\ ret.Fd2 = Decimal(102375, -4)

(* C4: for both leg types a call with scour_depth < 0 or pile_diameter < 0 *)
(* returns no result; with the other arguments valid the failure is        *)
(* ValueError; and no result has Ld2 > 0.                                  *)
C4_NegativeRejected ==
    IsForces =>
        LET a == call.args
            negative == \/ DLt(a.scour_depth, Zero)
                        \/ DLt(PassedPileDiameter(a), Zero)
        IN  /\ negative => ret.status # "ok"
            /\ (negative /\ call.float = "none" /\ ValidBase(a))
                   => ret.status = "ValueError"
            /\ ret.status = "ok" => DLe(ret.Ld2, Zero)

C4_Witness ==
    /\ IsForces /\ call.float = "none" /\ ValidBase(call.args)
    /\ call.args.leg_type = "BORED_PILE"
    /\ call.args.scour_depth = Decimal(-1, 0)
    /\ call.args.pile_diameter = Decimal(25, -1)
    /\ ret.status = "ValueError"

(* C5: a call in which one numeric parameter is a float and every          *)
(* argument has a valid value fails with TypeError.                        *)
C5_FloatRejected ==
    (IsForces /\ call.float # "none" /\ ValidArgs(call.args))
    => ret.status = "TypeError"

(* C6: a call whose leg_config lacks the key of its leg type fails with    *)
(* TypeError, and no evaluation reads the area for a PIER or the diameter  *)
(* for a BORED_PILE: the outcome is the one of the same call without that  *)
(* key.                                                                    *)
C6_ConfigMatchesLegType ==
    IsForces =>
        LET a == call.args
            own == RequiredKey(a.leg_type)
            other == IF a.leg_type = "PIER" THEN "area" ELSE "diameter"
            items == a.leg_config.items
        IN  /\ ~HasKey(a.leg_config, own) => ret.status = "TypeError"
            /\ other \notin ret.reads
            /\ HasKey(a.leg_config, other) =>
                  ret = calculate_forces(
                          [a EXCEPT !.leg_config.items =
                              [k \in DOMAIN items \ {other} |-> items[k]]])

C6_Witness ==
    /\ IsForces /\ call.float = "none"
    /\ call.args.leg_type = "BORED_PILE"
    /\ call.args.leg_config.isdict
    /\ DOMAIN call.args.leg_config.items = {"diameter"}
    /\ ret.status = "TypeError"
    /\ ret.reads = {}

C8_CdPlateaus ==
    IsCd =>
        /\ DLe(call.x, PyInt(40)) => ret.value = Decimal(34, -1)
        /\ DLe(PyInt(260), call.x) => ret.value = Decimal(14, -1)

(* C9: at each breakpoint 40, 60, 85, 100, 130, 260 the segment ending     *)
(* there gives the documented coefficient 3.4, 2.8, 2.35, 2.20, 1.95,      *)
(* 1.40.                                                                   *)
C9_SegmentsMeetEndpoints ==
    (IsCd /\ call.x.t = "dec" /\ \E b \in Breakpoints : call.x = Decimal(b, 0))
    => \A b \in Breakpoints :
          call.x = Decimal(b, 0) => ret.value = Decimal(DocumentedEndpoint(b), -2)

(* C10 as claimed: for every water_depth and every pair (min, max) the     *)
(* result d has min <= d <= max, and is min below min, max above max and   *)
(* water_depth otherwise.                                                  *)
C10_ClampedForEveryPair ==
    IsDebrisDepth =>
        LET wd == call.water_depth
            lo == call.min_debris_depth
            hi == call.max_debris_depth
            d == ret.value
        IN  /\ DLe(lo, d) /\ DLe(d, hi)
            /\ DLt(wd, lo) => d = lo
            /\ DLt(hi, wd) => d = hi
            /\ (~DLt(wd, lo) /\ ~DLt(hi, wd)) => d = wd

(* C10 amended: for every water_depth and every pair with min <= max the   *)
(* result d has min <= d <= max, and is min below min, max above max and   *)
(* water_depth otherwise; for a pair with min > max the result is max.     *)
C10_ClampedForOrderedPair ==
    IsDebrisDepth =>
        LET wd == call.water_depth
            lo == call.min_debris_depth
            hi == call.max_debris_depth
            d == ret.value
        IN  /\ DLe(lo, hi) =>
                  /\ DLe(lo, d) /\ DLe(d, hi)
                  /\ DLt(wd, lo) => d = lo
                  /\ DLt(hi, wd) => d = hi
                  /\ (~DLt(wd, lo) /\ ~DLt(hi, wd)) => d = wd
            /\ DLt(hi, lo) => d = hi

C10_Witness ==
    /\ IsDebrisDepth
    /\ call.water_depth = Decimal(5, -1)
    /\ call.min_debris_depth = Decimal(15, -1)
    /\ call.max_debris_depth = Decimal(3, 0)
    /\ ret.value = Decimal(15, -1)

----------------------------------------------------------------------------
(* Vocabulary of the properties of the returned forces *)

\* a call of calculate_forces, direct or by the preview
IsEvaluation == call.fn \in {"calculate_forces", "preview"}

Twice(x) == DMul(Decimal(2, 0), x)

\* |x - c| <= tol
Near(x, c, tol) == DLe(DSub(x, c), tol) /\ DLe(DSub(c, x), tol)

\* the water depths of the calls of the model
AllDepths == WaterDepths \cup PreviewDepths

\* the arguments with another water depth
AtDepth(a, wd) == [a EXCEPT !.water_depth = wd]

(* C11: every result has L2 = max(water_depth - d/2, d/2) for the debris   *)
(* mat depth d: exactly d/2 when d > water_depth, exactly                  *)
(* water_depth - d/2 when d <= water_depth.                                *)
C11_L2Floor ==
    (IsEvaluation /\ ret.status = "ok")
    => LET wd == call.args.water_depth
           d == call.args.debris_mat_depth
       IN  /\ DLt(wd, d) => Twice(ret.L2) = d
           /\ DLe(d, wd) => Twice(ret.L2) = DSub(Twice(wd), d)
           /\ DLe(DSub(Twice(wd), d), Twice(ret.L2)) /\ DLe(d, Twice(ret.L2))

C11_Witness ==
    /\ IsForces /\ ret.status = "ok"
    /\ call.args.water_depth = Decimal(1, 0)
    /\ call.args.debris_mat_depth = Decimal(4, 0)
    /\ call.args.water_velocity = Decimal(3, 0)
    /\ ret.L2 = Decimal(2, 0)

C13_HeightsInWaterColumn ==
    (call.fn = "preview" /\ ret.status = "ok")
    => LET wd == call.args.water_depth
       IN  /\ DLe(Zero, ret.L1) /\ DLe(ret.L1, wd)
           /\ DLe(Zero, ret.L2) /\ DLe(ret.L2, wd)
           /\ DLe(Zero, ret.L3) /\ DLe(ret.L3, wd)

(* C13 amended: in every evaluation with the clamped debris mat depth d of *)
(* its water depth, 0 <= L1 <= water_depth, 0 <= L3 <= water_depth and     *)
(* L2 >= 0; L2 <= water_depth when d <= 2 * water_depth, and L2 = d/2 >    *)
(* water_depth when d > 2 * water_depth (a water depth below half the      *)
(* minimum debris depth).                                                  *)
C13_HeightsAmended ==
    (call.fn = "preview" /\ ret.status = "ok")
    => LET wd == call.args.water_depth
           d == call.args.debris_mat_depth
       IN  /\ d = calculate_actual_debris_depth(wd, call.min_debris_depth,
                                                call.max_debris_depth)
           /\ DLe(Zero, ret.L1) /\ DLe(ret.L1, wd)
           /\ DLe(Zero, ret.L3) /\ DLe(ret.L3, wd)
           /\ DLe(Zero, ret.L2)
           /\ DLe(d, Twice(wd)) => DLe(ret.L2, wd)
           /\ DLt(Twice(wd), d) => (Twice(ret.L2) = d /\ DLt(wd, ret.L2))

C13_Witness ==
    /\ call.fn = "preview" /\ ret.status = "ok"
    /\ call.args.leg_type = "BORED_PILE"
    /\ call.args.water_depth = Decimal(5, -1)
    /\ call.min_debris_depth = Decimal(12, -1)
    /\ call.args.debris_mat_depth = Decimal(12, -1)
    /\ ret.L2 = Decimal(6, -1)

(* C14: every result has Ld2 = -scour_depth/2 and Ld2 <= 0, for both leg   *)
(* types.                                                                  *)
C14_Ld2BelowGround ==
    (IsEvaluation /\ ret.status = "ok")
    => /\ Twice(ret.Ld2) = DNeg(call.args.scour_depth)
       /\ DLe(ret.Ld2, Zero)

C14_Witness ==
    /\ IsForces /\ ret.status = "ok"
    /\ call.args.leg_type = "BORED_PILE"
    /\ call.args.scour_depth = Decimal(1, 0)
    /\ ret.Ld2 = Decimal(-5, -1)

\* the pier of the example: diameter 2.5, depth 8.0, velocity 3.0, cd 0.7,
\* load factor 1.3
IsPierExample ==
    /\ IsForces /\ call.float = "none" /\ ret.status = "ok"
    /\ call.args.leg_type = "PIER"
    /\ call.args.leg_config.items["diameter"] = Decimal(25, -1)
    /\ call.args.water_depth = Decimal(8, 0)
    /\ call.args.water_velocity = Decimal(3, 0)
    /\ call.args.cd_pier = Decimal(7, -1)
    /\ call.args.load_factor = Decimal(13, -1)

(* C15 as claimed: the pier example returns F1 = 234.0 kN to the digit     *)
(* shown and L1 = 4.0 m.                                                   *)
C15_PierExample234 ==
    IsPierExample
    => (Near(ret.F1, Decimal(234, 0), Decimal(5, -2)) /\ ret.L1 = Decimal(4, 0))

(* C15 amended: the pier example returns F1 = 81.9 kN                      *)
(* (0.5 * 0.7 * 3^2 * 8 * 2.5 * 1.3) and L1 = 4.0 m.                       *)
C15_PierExample ==
    IsPierExample => (ret.F1 = Decimal(819, -1) /\ ret.L1 = Decimal(4, 0))

C15_Witness ==
    /\ IsPierExample
    /\ call.args.pile_diameter = Omitted
    /\ call.args.scour_depth = Zero
    /\ ret.F1 = Decimal(819, -1)

\* the bored pile of the example: area 20.0, velocity 3.0, cd 0.8, load
\* factor 1.3, an explicit positive pile diameter
IsBoredPileExample ==
    /\ IsForces /\ call.float = "none" /\ ret.status = "ok"
    /\ call.args.leg_type = "BORED_PILE"
    /\ call.args.leg_config.items["area"] = Decimal(20, 0)
    /\ call.args.water_velocity = Decimal(3, 0)
    /\ call.args.cd_pier = Decimal(8, -1)
    /\ call.args.load_factor = Decimal(13, -1)
    /\ DLt(Zero, PassedPileDiameter(call.args))

(* C16 as claimed: the bored pile example returns F1 = 280.8 kN to the     *)
(* digit shown.                                                            *)
C16_BoredPileExample280 ==
    IsBoredPileExample => Near(ret.F1, Decimal(2808, -1), Decimal(5, -2))

(* C16 amended: the bored pile example returns F1 = 132.4 kN               *)
(* (0.5 * 0.8 * 3^2 * 20 * sqrt(2) * 1.3 = 132.37).                        *)
C16_BoredPileExample ==
    IsBoredPileExample => Near(ret.F1, Decimal(13237, -2), Decimal(5, -2))

C16_Witness ==
    /\ IsBoredPileExample
    /\ call.args.pile_diameter = Decimal(25, -1)
    /\ Near(ret.F1, Decimal(13237, -2), Decimal(5, -2))

(* C17: every result has F1 = 0.5 * cd_pier * V^2 * Ad * load_factor with  *)
(* Ad = water_depth * diameter (Pier) or area * sqrt(2) (BoredPile, so its *)
(* F1 is the same at every water depth), and L1 = water_depth/2 (Pier) or  *)
(* 2*water_depth/3 (BoredPile); the engineer-provided cases give 4.901 kN  *)
(* and 132.37 kN within 0.1 kN.                                            *)
C17_F1Formula ==
    (IsEvaluation /\ call.float = "none" /\ ret.status = "ok")
    => LET a == call.args
           pier == a.leg_type = "PIER"
           root == At(Sqrt2, -Prec)
           Ad == IF pier THEN DMul(a.water_depth, a.leg_config.items["diameter"])
                 ELSE DMul(a.leg_config.items["area"], Sqrt2)
           F1 == DMul(DMul(DPow2(a.water_velocity), Ad),
                      DMul(DMul(Decimal(5, -1), a.cd_pier), a.load_factor))
       IN  /\ Near(ret.F1, F1, Decimal(1, -4))
           /\ (2 * root - 1) * (2 * root - 1) <= 8 * Pow10(2 * Prec)
           /\ 8 * Pow10(2 * Prec) <= (2 * root + 1) * (2 * root + 1)
           /\ ~pier => \A wd2 \in AllDepths :
                          calculate_forces(AtDepth(a, wd2)).F1 = ret.F1
           /\ IF pier
              THEN Twice(ret.L1) = a.water_depth
              ELSE Near(DMul(Decimal(3, 0), ret.L1), Twice(a.water_depth),
                        Decimal(2, -Prec))
           /\ (a \in TestCases /\ pier /\ a.water_depth = Decimal(1482, -3)
                  /\ a.debris_mat_depth = Zero)
                 => Near(ret.F1, Decimal(4901, -3), Decimal(1, -1))
           /\ (a \in TestCases /\ ~pier)
                 => Near(ret.F1, Decimal(13237, -2), Decimal(1, -1))

C17_Witness ==
    /\ IsForces /\ call.float = "none" /\ ret.status = "ok"
    /\ call.args \in TestCases
    /\ call.args.leg_type = "PIER"
    /\ Near(ret.F1, Decimal(49006, -4), Decimal(1, -4))
    /\ ret.L1 = Decimal(741, -3)

\* the arguments for the other leg type, everything else the same
OtherLeg(a) ==
    [a EXCEPT !.leg_type = IF a.leg_type = "PIER" THEN "BORED_PILE" ELSE "PIER",
              !.leg_config = IF a.leg_type = "PIER"
                             THEN Dict([area |-> Decimal(20, 0)])
                             ELSE Dict([diameter |-> Decimal(25, -1)])]

\* the forces and heights that do not look at the leg
LegFree(r) == <<r.F2, r.L2, r.F3, r.L3, r.Fd2, r.Ld2>>

(* C18: every result has F2 = 0.5 * Cd(V, water_depth) * V^2 *             *)
(* (debris_mat_depth * 20) * load_factor, F3 = log_mass * V^2 /            *)
(* (2 * stopping_distance) * load_factor / 1000, L3 = water_depth and      *)
(* Fd2 = 0.5 * cd_pile * V^2 * scour_depth * pile_diameter * load_factor;  *)
(* with an explicit positive pile_diameter the other leg type gives the    *)
(* same F2, L2, F3, L3, Fd2 and Ld2; the engineer-provided cases give      *)
(* Fd2 = 4.901, F2 = 190.423 and F3 = 148.954 within 0.1 kN.               *)
C18_LegFreeForces ==
    (IsEvaluation /\ call.float = "none" /\ ret.status = "ok")
    => LET a == call.args
           V2 == DPow2(a.water_velocity)
           half == Decimal(5, -1)
           passed == PassedPileDiameter(a)
           pile_diameter == IF passed = Zero THEN a.leg_config.items["diameter"]
                            ELSE passed
           F2 == DMul(DMul(Cd(a.water_velocity, a.water_depth),
                           DMul(a.debris_mat_depth, Decimal(20, 0))),
                      DMul(DMul(half, V2), a.load_factor))
           Fd2 == DMul(DMul(DMul(half, a.cd_pile), V2),
                       DMul(DMul(a.scour_depth, pile_diameter), a.load_factor))
           other == calculate_forces(OtherLeg(a))
       IN  /\ Near(ret.F2, F2, Decimal(1, -4))
           /\ Near(DMul(DMul(ret.F3, Decimal(1000, 0)),
                        DMul(Decimal(2, 0), a.stopping_distance)),
                   DMul(DMul(a.log_mass, V2), a.load_factor), Decimal(1, -4))
           /\ ret.L3 = a.water_depth
           /\ Near(ret.Fd2, Fd2, Decimal(1, -4))
           /\ DLt(Zero, passed)
                 => (other.status = "ok" /\ LegFree(other) = LegFree(ret))
           /\ (a \in TestCases /\ a.scour_depth = Decimal(1482, -3))
                 => Near(ret.Fd2, Decimal(4901, -3), Decimal(1, -1))
           /\ (a \in TestCases /\ a.debris_mat_depth = Decimal(1482, -3))
                 => Near(ret.F2, Decimal(190423, -3), Decimal(1, -1))
           /\ (a \in TestCases /\ a.log_mass = Decimal(10000, 0))
                 => Near(ret.F3, Decimal(148954, -3), Decimal(1, -1))

C18_Witness ==
    /\ IsForces /\ call.float = "none" /\ ret.status = "ok"
    /\ call.args.leg_type = "BORED_PILE"
    /\ call.args.water_depth = Decimal(8, 0)
    /\ call.args.water_velocity = Decimal(3, 0)
    /\ call.args.debris_mat_depth = Decimal(2, 0)
    /\ call.args.stopping_distance = Decimal(25, -3)
    /\ call.args.load_factor = Decimal(13, -1)
    /\ call.args.pile_diameter = Decimal(25, -1)
    /\ call.args.cd_pile = Decimal(7, -1)
    /\ call.args.scour_depth = Decimal(1, 0)
    /\ ret.F2 = Decimal(604656, -3)
    /\ ret.F3 = Decimal(468, 0)
    /\ ret.Fd2 = Decimal(102375, -4)
    /\ LegFree(calculate_forces(OtherLeg(call.args))) = LegFree(ret)

----------------------------------------------------------------------------
(* Vocabulary of the properties of the batch layer *)

IsBatch == call.fn = "process_dataframe"

\* the event columns of the selected event are in the dataframe
HasEventColumns ==
    LET event == call.inputs["selected_event"]
    IN  {DEPTH_COL(event), VELOCITY_COL(event), SCOUR_COL(event)}
            \subseteq call.df.columns

\* the depth, velocity or scour of the input row is missing or not a number
InvalidRow(row) ==
    LET event == call.inputs["selected_event"]
    IN  \E c \in {DEPTH_COL(event), VELOCITY_COL(event), SCOUR_COL(event)} :
            row[c].kind \in {"nan", "text"}

\* the eight appended fields of an output row are all the marker
AllNotApplicable(out) == \A f \in ForceFields : out.results[f] = Text("N/A")

(* C19: for every batch process_dataframe returns one output row per input *)
(* row, in the order of the input; a row whose depth, velocity or scour is *)
(* missing, non-numeric or NaN is retained with all eight fields set to    *)
(* "N/A", and the rows after it are processed.                             *)
C19_OneRowPerRecord ==
    (IsBatch /\ HasEventColumns)
    => /\ ret.status = "ok"
       /\ Len(ret.rows) = Len(call.df.rows)
       /\ \A i \in DOMAIN call.df.rows :
            /\ call.df.rows[i][PierColumn] = Text("P1")
                  => ret.rows[i].original[PierColumn] = Text("P1")
            /\ InvalidRow(call.df.rows[i]) => AllNotApplicable(ret.rows[i])

(* C20: in the output of process_dataframe every original field of every   *)
(* input row has the value it had in the input; a row whose velocity is    *)
(* NaN carries the marker in its eight appended fields only.               *)
C20_OriginalFieldsKept ==
    (IsBatch /\ ret.status = "ok")
    => \A i \in DOMAIN call.df.rows :
         LET event == call.inputs["selected_event"]
             row == call.df.rows[i]
         IN  /\ \A c \in call.df.columns : ret.rows[i].original[c] = row[c]
             /\ row[VELOCITY_COL(event)] = NaN => AllNotApplicable(ret.rows[i])

----------------------------------------------------------------------------
(* Vocabulary of the properties of the batch evaluations *)

IsMainBatch == call.fn = "main.process_dataframe"

EventColumns == {DEPTH_COL("PMF"), VELOCITY_COL("PMF"), SCOUR_COL("PMF")}

\* the depth, velocity and scour of the input row are numbers, or texts
\* that spell numbers
ValidRow(row) == \A c \in EventColumns : row[c].kind \in {"number", "str"}

\* the number of a valid cell, as a Decimal
CellDecimal(cell) == DecimalOfStr(to_numeric(cell).value)

\* the scour of the input row is a negative number
NegativeScour(row) ==
    /\ row[SCOUR_COL("PMF")].kind = "number"
    /\ DLt(row[SCOUR_COL("PMF")].value, Zero)

\* the batch parameters respect the contract of calculate_forces
ValidBatchParameters ==
    /\ DLt(Zero, call.inputs["pile_diameter"])
    /\ DLt(Zero, call.inputs["stopping_distance"])

\* the batch is one with valid parameters over data without negative scour
ValidBatch ==
    /\ HasEventColumns
    /\ ValidBatchParameters
    /\ \A i \in DOMAIN call.df.rows : ~NegativeScour(call.df.rows[i])

\* the leg configuration of the batch
BatchLegConfig ==
    IF call.inputs["leg_type"] = "PIER"
    THEN Dict([diameter |-> call.inputs["column_diameter"]])
    ELSE Dict([area |-> call.inputs["wetted_area"]])

\* the arguments of calculate_forces for a valid row: the shared batch
\* parameters, the clamped debris depth, the row's depth, velocity and scour
ExpectedArgs(row) ==
    [leg_type |-> call.inputs["leg_type"],
     leg_config |-> BatchLegConfig,
     water_depth |-> CellDecimal(row[DEPTH_COL("PMF")]),
     water_velocity |-> CellDecimal(row[VELOCITY_COL("PMF")]),
     debris_mat_depth |->
         calculate_actual_debris_depth(CellDecimal(row[DEPTH_COL("PMF")]),
                                       call.inputs["min_debris_depth"],
                                       call.inputs["max_debris_depth"]),
     cd_pier |-> call.inputs["cd"],
     log_mass |-> call.inputs["log_mass"],
     stopping_distance |-> call.inputs["stopping_distance"],
     load_factor |-> call.inputs["load_factor"],
     pile_diameter |-> call.inputs["pile_diameter"],
     cd_pile |-> call.inputs["cd_pile"],
     scour_depth |-> CellDecimal(row[SCOUR_COL("PMF")])]

\* the eight appended fields of an output row are the numbers of forces
RecordsNumbers(out, forces) ==
    /\ forces.status = "ok"
    /\ \A f \in ForceFields : out.results[f] = Number(AsFloat(forces[f]))

(* C21: for every batch with valid parameters, every input row whose       *)
(* depth, velocity and scour are valid numbers is evaluated by             *)
(* calculate_forces with the shared batch parameters, the clamped debris   *)
(* depth and the row's scour, and the eight values returned are recorded   *)
(* as numbers in the output row.                                           *)
C21_ValidRowsEvaluated ==
    (IsBatch /\ ValidBatch)
    => \A i \in DOMAIN call.df.rows :
         ValidRow(call.df.rows[i])
         => /\ ret.status = "ok"
            /\ RecordsNumbers(ret.rows[i],
                              calculate_forces(ExpectedArgs(call.df.rows[i])))

\* the batch is run with stopping_distance = 0, the other parameters valid,
\* over data without negative scour
ZeroStoppingDistanceBatch ==
    /\ HasEventColumns
    /\ DLt(Zero, call.inputs["pile_diameter"])
    /\ DEq(call.inputs["stopping_distance"], Zero)
    /\ \A i \in DOMAIN call.df.rows : ~NegativeScour(call.df.rows[i])

(* C22: a batch run with stopping_distance = 0 completes: the call         *)
(* returns one row per input row, and the log impact force F3 of every     *)
(* valid row, which is infinite or NaN, is reported as "N/A".              *)
C22_ZeroStoppingDistanceCompletes ==
    (IsBatch /\ ZeroStoppingDistanceBatch)
    => /\ ret.status = "ok"
       /\ \A i \in DOMAIN call.df.rows :
            ValidRow(call.df.rows[i]) => ret.rows[i].results["F3"] = Text("N/A")

\* the eight appended fields of an output row are the values of forces, as
\* numbers or as the texts that spell them
ReportsValues(out, forces) ==
    /\ forces.status = "ok"
    /\ \A f \in ForceFields :
         out.results[f] \in {Number(AsFloat(forces[f])), Str(AsFloat(forces[f]))}

(* C23: for every batch with valid parameters process_dataframe returns,   *)
(* whatever missing, NaN or non-numeric values its rows hold: every row    *)
(* with such a value has the marker "N/A" in all eight fields and every    *)
(* other row carries the values calculate_forces returns for it.           *)
C23_RowValuesNeverAbort ==
    (IsBatch /\ ValidBatch)
    => /\ ret.status = "ok"
       /\ \A i \in DOMAIN call.df.rows :
            /\ InvalidRow(call.df.rows[i]) => AllNotApplicable(ret.rows[i])
            /\ ValidRow(call.df.rows[i])
                 => ReportsValues(ret.rows[i],
                                  calculate_forces(ExpectedArgs(call.df.rows[i])))

\* the batch breaks the parameter contract of calculate_forces: a bored
\* pile without a pile diameter, a negative pile diameter, or a negative
\* scour depth in the data
ContractViolation ==
    \/ /\ "leg_type" \in DOMAIN call.inputs
       /\ call.inputs["leg_type"] = "BORED_PILE"
       /\ DEq(call.inputs["pile_diameter"], Zero)
    \/ DLt(call.inputs["pile_diameter"], Zero)
    \/ \E i \in DOMAIN call.df.rows : NegativeScour(call.df.rows[i])

(* C24: every batch that breaks the parameter contract (a bored pile with  *)
(* pile_diameter zero, a negative pile_diameter, or data with a negative   *)
(* scour depth) is aborted: process_dataframe raises and returns no output *)
(* rows, whatever the other rows hold.                                     *)
C24_ContractViolationAborts ==
    ((IsBatch \/ IsMainBatch) /\ HasEventColumns /\ ContractViolation)
    => ret.status # "ok"

(* C25: when one of the three event columns of the selected event is       *)
(* absent from the dataframe, process_dataframe raises ValueError, and     *)
(* does so before it evaluates any row.                                    *)
C25_MissingColumnsValueError ==
    ((IsBatch \/ IsMainBatch) /\ ~HasEventColumns)
    => /\ ret.status = "ValueError"
       /\ ret.calls = <<>>

(* C26: process_dataframe leaves the caller's dataframe, its column names  *)
(* and its cell values, exactly as it was before the call, whether the     *)
(* call returns or raises.                                                 *)
C26_InputTableUnchanged ==
    (IsBatch \/ IsMainBatch) => ret.df = call.df

IsPreview == call.fn = "preview"

\* L2 for water depth wd and the debris mat depth c
L2Of(wd, c) ==
    DMax(DSub(wd, DDiv(c, Decimal(2, 0))), DDiv(c, Decimal(2, 0)))

\* the debris mat depth of the arguments a is the clamp of their own water
\* depth between lo and hi
ClampedDebris(a, lo, hi) ==
    a.debris_mat_depth = calculate_actual_debris_depth(a.water_depth, lo, hi)

\* the valid rows of a dataframe, in their order
RECURSIVE ValidRowsFrom(_, _)
ValidRowsFrom(rows, i) ==
    IF i > Len(rows) THEN <<>>
    ELSE IF ValidRow(rows[i]) THEN <<rows[i]>> \o ValidRowsFrom(rows, i + 1)
    ELSE ValidRowsFrom(rows, i + 1)

(* C27: in every evaluation the preview or a batch layer starts, the       *)
(* debris mat depth passed to calculate_forces is                          *)
(* calculate_actual_debris_depth(water_depth, min_debris_depth,            *)
(* max_debris_depth) for the water depth of that same evaluation (in a     *)
(* batch: of the row the evaluation is made for), and the L2 that is       *)
(* returned or recorded is the one of this clamped depth.                  *)
C27_DebrisDepthClamped ==
    /\ IsPreview
       => /\ ClampedDebris(call.args, call.min_debris_depth, call.max_debris_depth)
          /\ ret.status = "ok"
               => ret.L2 = L2Of(call.args.water_depth,
                                calculate_actual_debris_depth(
                                    call.args.water_depth, call.min_debris_depth,
                                    call.max_debris_depth))
    /\ ((IsBatch \/ IsMainBatch) /\ ~HasEventColumns) => ret.calls = <<>>
    /\ ((IsBatch \/ IsMainBatch) /\ HasEventColumns)
       => /\ Len(ret.calls) <= Len(ValidRowsFrom(call.df.rows, 1))
          /\ \A k \in DOMAIN ret.calls :
               /\ ret.calls[k].water_depth =
                      CellDecimal(ValidRowsFrom(call.df.rows, 1)[k][DEPTH_COL("PMF")])
               /\ ClampedDebris(ret.calls[k], call.inputs["min_debris_depth"],
                                call.inputs["max_debris_depth"])
          /\ ret.status = "ok"
               => \A i \in DOMAIN call.df.rows :
                    ValidRow(call.df.rows[i])
                    => LET wd == CellDecimal(call.df.rows[i][DEPTH_COL("PMF")])
                           L2 == AsFloat(L2Of(wd, calculate_actual_debris_depth(
                                                  wd, call.inputs["min_debris_depth"],
                                                  call.inputs["max_debris_depth"])))
                       IN  ret.rows[i].results["L2"] \in {Number(L2), Str(L2)}

\* a batch has evaluated two rows of different water depths, the debris mat
\* of the first at the maximum and the one of the second at the water depth
C27_Witness ==
    /\ IsMainBatch
    /\ ret.status = "ok"
    /\ Len(ret.calls) = 2
    /\ ret.calls[1].water_depth = Decimal(8, 0)
    /\ ret.calls[1].debris_mat_depth = Decimal(3, 0)
    /\ ret.calls[2].water_depth = Decimal(2, 0)
    /\ ret.calls[2].debris_mat_depth = Decimal(2, 0)

\* the outcome of the same call for the batch of row i alone
Alone(i) ==
    IF IsBatch
    THEN process_dataframe([call.df EXCEPT !.rows = <<call.df.rows[i]>>],
                           call.inputs)
    ELSE main_process_dataframe([call.df EXCEPT !.rows = <<call.df.rows[i]>>],
                                call.inputs)

(* C28: the eight output fields of a record depend on that record and the  *)
(* shared parameters only: in every batch with valid parameters, a record  *)
(* that yields output when it is processed alone has the same eight        *)
(* fields, the same values in the same representation (number or text),    *)
(* whatever other records the batch holds.                                 *)
C28_RecordsIndependent ==
    ((IsBatch \/ IsMainBatch) /\ ValidBatch)
    => \A i \in DOMAIN call.df.rows :
         Alone(i).status = "ok"
         => /\ ret.status = "ok"
            /\ ret.rows[i].results = Alone(i).rows[1].results

----------------------------------------------------------------------------
(* The pier-only kernel of main.py against the kernel of calculations.py *)

IsMainForces == call.fn = "main.calculate_forces"

\* the arguments of calculations.calculate_forces for the pier of the
\* arguments a of main.calculate_forces
FromMain(a) ==
    [leg_type |-> "PIER",
     leg_config |-> Dict([diameter |-> a.column_diameter]),
     water_depth |-> a.water_depth, water_velocity |-> a.water_velocity,
     debris_mat_depth |-> a.debris_mat_depth, cd_pier |-> a.cd_pier,
     log_mass |-> a.log_mass, stopping_distance |-> a.stopping_distance,
     load_factor |-> a.load_factor, pile_diameter |-> a.pile_diameter,
     cd_pile |-> a.cd_pile, scour_depth |-> a.scour_depth]

\* two outcomes are the same exception or the same eight values
SameOutcome(r, q) ==
    /\ r.status = q.status
    /\ r.status = "ok" => \A f \in ForceFields : r[f] = q[f]

(* C29: main.calculate_forces returns for every argument list the outcome  *)
(* of calculations.calculate_forces for LegType.PIER and the configuration *)
(* {diameter: column_diameter}: the same eight values, or an exception in  *)
(* the same cases; with the pile diameter omitted and scour depth 0 both   *)
(* return Fd2 = 0 and Ld2 = 0.                                             *)
C29_MainAgreesWithPier ==
    IsMainForces
    => /\ SameOutcome(ret, calculate_forces(FromMain(call.args)))
       /\ (/\ ret.status = "ok"
           /\ call.args.pile_diameter = Omitted
           /\ call.args.scour_depth = Zero)
          => /\ ret.Fd2 = Zero /\ ret.Ld2 = Zero
             /\ calculate_forces(FromMain(call.args)).Fd2 = Zero
             /\ calculate_forces(FromMain(call.args)).Ld2 = Zero

\* main.calculate_forces has returned a force on the scoured pile, computed
\* for the column diameter since no pile diameter was passed
C29_Witness ==
    /\ IsMainForces
    /\ ret.status = "ok"
    /\ call.args.pile_diameter = Omitted
    /\ DLt(Zero, call.args.scour_depth)
    /\ DLt(Zero, ret.Fd2)

----------------------------------------------------------------------------
(* The shape of Cd *)

\* the numeric arguments of an evaluation are all non-negative
NonNegativeArgs(a) ==
    /\ \A p \in {"water_depth", "water_velocity", "debris_mat_depth", "cd_pier",
                 "log_mass", "stopping_distance", "load_factor", "cd_pile",
                 "scour_depth"} : DLe(Zero, a[p])
    /\ DLe(Zero, PassedPileDiameter(a))
    /\ \A k \in DOMAIN a.leg_config.items : DLe(Zero, a.leg_config.items[k])

\* the pairs of x = V^2 * y and the coefficient Cd gives for it
CdGraph ==
    {<<DMul(DPow2(V), y), Cd(V, y)>> : V \in CdVelocities, y \in CdDepths}

(* C30: Cd is non-increasing in x = V^2 * y over all x >= 0, across the     *)
(* breakpoints too: no call with a larger x has a larger coefficient; the  *)
(* coefficient always lies in [1.4, 3.4]; and every evaluation with        *)
(* non-negative arguments that returns has F1, F2, F3 and Fd2 >= 0.        *)
C30_CdNonIncreasing ==
    /\ IsCd
       => /\ DLe(Decimal(14, -1), ret.value)
          /\ DLe(ret.value, Decimal(34, -1))
          /\ \A p \in CdGraph : DLe(call.x, p[1]) => DLe(p[2], ret.value)
    /\ (IsEvaluation /\ ret.status = "ok" /\ NonNegativeArgs(call.args))
       => \A f \in {"F1", "F2", "F3", "Fd2"} : DLe(Zero, ret[f])

\* Cd has been called at the breakpoint 130, where the segment that ends
\* gives 1.9501 and the one that starts gives 1.95
C30_Witness ==
    /\ IsCd
    /\ call.x = Decimal(130, 0)
    /\ ret.value = Decimal(19501, -4)

====
